---- MODULE Spec2Model ----
(***************************************************************************)
(* Model of the loxilb ingress reconciler (managers/ingress.go): the rule  *)
(* model builders, the endpoint resolver, the state differ and the         *)
(* Reconcile pass against the remote rule store and the object store.      *)
(*                                                                         *)
(* Strings are TLA+ strings and fmt.Sprintf("%s_%s", ...) is string        *)
(* concatenation.  A Go nil pointer or a missing object is the record Nil. *)
(***************************************************************************)
EXTENDS Integers, Sequences, FiniteSets, TLC

VARIABLES
    ingress,      \* object store: RouteSource -> Ingress object or Nil (not found)
    endpoints,    \* object store: <<ns, name>> -> Endpoints object [Subsets] or Nil
    services,     \* object store: <<ns, name>> -> Service object or Nil
    pods,         \* object store: <<ns, name>> -> PodList [Items] matching that service's selector, or Nil
    store,        \* remote rule store: set of LoadBalancerModel, at most one per Service.Name
    queued,       \* RouteSource -> a reconcile request is waiting in the work queue
    changes,      \* number of object-store changes made so far
    snapshot,     \* RouteSource -> currLBList of the last pass
    models,       \* RouteSource -> builder output of the last pass
    buildErr,     \* RouteSource -> error of the builder in the last pass ("" = nil)
    applyModels,  \* RouteSource -> create set of the last pass
    calls,        \* RouteSource -> remote calls issued by the last pass, in order
    result,       \* RouteSource -> (ctrl.Result, error) of the last pass
    streak,       \* RouteSource -> successful passes in a row with no change in between
    fresh,        \* RouteSource -> the object store is as the last pass read it
    owned,        \* RouteSource -> names of the rules its passes have created so far
    status        \* object store: RouteSource -> Status.LoadBalancer.Ingress of the Ingress

vars == <<ingress, endpoints, services, pods, store, queued, changes,
          snapshot, models, buildErr, applyModels, calls, result, streak, fresh,
          owned, status>>

\* a Go nil pointer, a not-found object, a failed call
Nil == [nil |-> TRUE]

----------------------------------------------------------------------------
(* Bounds of the model *)

MaxRules   == 2     \* rules of one Ingress
MaxPorts   == 2     \* ports of the direct-service target
MaxChanges == 1     \* object-store changes in one behaviour
MaxEndpoints == 2   \* endpoints of one rule handed to the differ
MaxPaths   == 2     \* paths under one rule handed to the builder
MaxSubsets == 2     \* subsets of the Endpoints object handed to the builder

----------------------------------------------------------------------------
(* Small helpers *)

RECURSIVE SeqsUpTo(_, _)
SeqsUpTo(S, n) ==
    IF n = 0 THEN {<<>>}
    ELSE LET shorter == SeqsUpTo(S, n - 1)
         IN  shorter \cup {Append(q, x) : q \in {p \in shorter : Len(p) = n - 1}, x \in S}

Range(q) == {q[i] : i \in 1..Len(q)}

Uint16(n) == n % 65536

----------------------------------------------------------------------------
(* Object store accessors (client.Client.Get / List) *)

GetEndpoints(eps, ns, name) ==
    IF <<ns, name>> \in DOMAIN eps THEN eps[<<ns, name>>] ELSE Nil

GetService(svcs, ns, name) ==
    IF <<ns, name>> \in DOMAIN svcs THEN svcs[<<ns, name>>] ELSE Nil

\* r.List of the pods matching the selector of service ns/name
ListPods(podsOf, ns, name) ==
    IF <<ns, name>> \in DOMAIN podsOf THEN podsOf[<<ns, name>>] ELSE Nil

----------------------------------------------------------------------------
(* Rule model builder and endpoint resolver *)

EndPointSel_RR == "rr"

\* loxiapi selection tag chosen by the switch on the epselect annotation
SelOf(epSelect) ==
    CASE epSelect = "rr"       -> "LbSelRr"
      [] epSelect = "hash"     -> "LbSelHash"
      [] epSelect = "priority" -> "LbSelPrio"
      [] epSelect = "persist"  -> "LbSelRrPersist"
      [] epSelect = "lc"       -> "LbSelLeastConnections"
      [] epSelect = "n2"       -> "LbSelN2"
      [] OTHER                 -> "LbSelRr"

\* strings.ToLower on the protocol names of a ServicePort
ToLower(str) ==
    CASE str = "TCP"  -> "tcp"
      [] str = "UDP"  -> "udp"
      [] str = "SCTP" -> "sctp"
      [] OTHER        -> str

createDirectLoxiLoadBalancerService(ns, name, externalIP, protocol, host, epSelect, port) ==
    [ExternalIP |-> externalIP,
     Protocol   |-> ToLower(protocol),
     Mode       |-> 4,
     Name       |-> ns \o "_" \o name,
     Host       |-> host,
     Security   |-> 0,
     Port       |-> Uint16(port),
     Sel        |-> SelOf(epSelect)]

\* mutant: the TLS rule keeps the plaintext port
createLoxiLoadBalancerService_Port80(ns, name, externalIP, security, host) ==
    [ExternalIP |-> externalIP,
     Protocol   |-> "tcp",
     Mode       |-> 4,
     Name       |-> ns \o "_" \o name,
     Host       |-> host,
     Security   |-> security,
     Port       |-> 80,
     Sel        |-> "LbSelRr"]

createLoxiLoadBalancerService(ns, name, externalIP, security, host) ==
    [ExternalIP |-> externalIP,
     Protocol   |-> "tcp",
     Mode       |-> 4,
     Name       |-> ns \o "_" \o name,
     Host       |-> host,
     Security   |-> security,
     Port       |-> IF security = 0 THEN 80 ELSE 443,
     Sel        |-> "LbSelRr"]

\* the addresses of all subsets, in order, each at the given target port
RECURSIVE SubsetAddrs(_, _)
SubsetAddrs(subsets, targetPort) ==
    IF subsets = <<>> THEN <<>>
    ELSE [i \in 1..Len(Head(subsets).Addresses) |->
             [EndpointIP |-> Head(subsets).Addresses[i],
              TargetPort |-> Uint16(targetPort),
              Weight     |-> 1]]
         \o SubsetAddrs(Tail(subsets), targetPort)

\* mutant: the resolver without its check for an empty list
createLoxiLoadBalancerEndpointsWithTargetPort_NoCheck(eps, ns, name, targetPort) ==
    LET ep == GetEndpoints(eps, ns, name)
    IN  IF ep = Nil
        THEN [eps |-> <<>>, err |-> "get endpoints"]
        ELSE [eps |-> SubsetAddrs(ep.Subsets, targetPort), err |-> ""]

createLoxiLoadBalancerEndpointsWithTargetPort(eps, ns, name, targetPort) ==
    LET ep == GetEndpoints(eps, ns, name)
    IN  IF ep = Nil
        THEN [eps |-> <<>>, err |-> "get endpoints"]
        ELSE LET list == SubsetAddrs(ep.Subsets, targetPort)
             IN  IF Len(list) <= 0
                 THEN [eps |-> list, err |-> "no endpoints"]
                 ELSE [eps |-> list, err |-> ""]

checkTLSHost(host, TLS) ==
    \E i \in 1..Len(TLS) : \E j \in 1..Len(TLS[i].Hosts) : host = TLS[i].Hosts[j]

getBackendServiceNamespace(ing, backendName) ==
    IF "external-backend-service" \in DOMAIN ing.Annotations
       /\ ("service-" \o backendName \o "-namespace") \in DOMAIN ing.Annotations
    THEN ing.Annotations["service-" \o backendName \o "-namespace"]
    ELSE ing.Namespace

\* LoxiClient.Host, the external IP of every path-routed rule
LoxiHost == "loxilb-host"

\* inner loop of createLoxiModelList: the paths of one rule, stopping at the first error
RECURSIVE createLoxiModelList_paths(_, _, _, _, _)
createLoxiModelList_paths(ing, eps, rule, paths, acc) ==
    IF paths = <<>> THEN [models |-> acc, err |-> ""]
    ELSE LET path == Head(paths)
         IN  IF path.Service = Nil
             THEN createLoxiModelList_paths(ing, eps, rule, Tail(paths), acc)
             ELSE LET name     == path.Service.Name
                      ns       == getBackendServiceNamespace(ing, name)
                      port     == path.Service.Port
                      security == IF checkTLSHost(rule.Host, ing.TLS) THEN 1 ELSE 0
                      lbName   == IF security = 1 THEN ing.Name \o "_https" ELSE ing.Name
                      loxisvc  == createLoxiLoadBalancerService(ing.Namespace, lbName, LoxiHost,
                                                                security, rule.Host)
                      loxiep   == createLoxiLoadBalancerEndpointsWithTargetPort(eps, ns, name, port)
                  IN  IF loxiep.err # ""
                      THEN [models |-> acc, err |-> loxiep.err]
                      ELSE createLoxiModelList_paths(ing, eps, rule, Tail(paths),
                               Append(acc, [Service |-> loxisvc, Endpoints |-> loxiep.eps]))

\* outer loop of createLoxiModelList: the rules, skipping those without HTTP
RECURSIVE createLoxiModelList_rules(_, _, _, _)
createLoxiModelList_rules(ing, eps, rules, acc) ==
    IF rules = <<>> THEN [models |-> acc, err |-> ""]
    ELSE LET rule == Head(rules)
         IN  IF rule.HTTP = Nil
             THEN createLoxiModelList_rules(ing, eps, Tail(rules), acc)
             ELSE LET done == createLoxiModelList_paths(ing, eps, rule, rule.HTTP.Paths, acc)
                  IN  IF done.err # "" THEN done
                      ELSE createLoxiModelList_rules(ing, eps, Tail(rules), done.models)

createLoxiModelList(ing, eps) == createLoxiModelList_rules(ing, eps, ing.Rules, <<>>)

\* all container ports of the listed pods, in pod / container / port order
RECURSIVE ContainerPorts(_)
ContainerPorts(podList) ==
    IF podList = <<>> THEN <<>>
    ELSE LET RECURSIVE OfContainers(_)
             OfContainers(cs) ==
                 IF cs = <<>> THEN <<>> ELSE Head(cs).Ports \o OfContainers(Tail(cs))
         IN  OfContainers(Head(podList).Containers) \o ContainerPorts(Tail(podList))

\* intstr.IntOrString: IntValue() of a name is 0 (Atoi fails), String() of an int is its digits
IntValue(tp) == IF tp.Type = "Int" THEN tp.IntVal ELSE 0
StringOf(tp) == IF tp.Type = "String" THEN tp.StrVal ELSE "<digits>"

GetServicePortIntValue(svc, port, podList) ==
    IF IntValue(port.TargetPort) # 0
    THEN [num |-> IntValue(port.TargetPort), err |-> ""]
    ELSE IF podList = Nil
    THEN [num |-> 0, err |-> "list pods"]
    ELSE LET cps == ContainerPorts(podList.Items)
             hit == {i \in 1..Len(cps) : cps[i].Name = StringOf(port.TargetPort)}
         IN  IF hit = {}
             THEN [num |-> 0, err |-> "not found port name"]
             ELSE [num |-> cps[CHOOSE i \in hit : \A j \in hit : i <= j].ContainerPort,
                   err |-> ""]

\* loop of createDirectLoxiModelList over the ports of the target service
RECURSIVE createDirectLoxiModelList_ports(_, _, _, _, _, _, _, _, _)
createDirectLoxiModelList_ports(ing, eps, svc, podList, svcNs, svcName, selStr, ports, acc) ==
    IF ports = <<>> THEN [models |-> acc, err |-> ""]
    ELSE LET port   == Head(ports)
             target == GetServicePortIntValue(svc, port, podList)
             lbName == ing.Name
         IN  IF target.err # ""
             THEN [models |-> acc, err |-> target.err]
             ELSE LET loxisvc == createDirectLoxiLoadBalancerService(svcNs, lbName, "0.0.0.0",
                                     port.Protocol, "", selStr, port.Port)
                      loxiep  == createLoxiLoadBalancerEndpointsWithTargetPort(eps, svcNs, svcName,
                                                                                target.num)
                  IN  IF loxiep.err # ""
                      THEN [models |-> acc, err |-> loxiep.err]
                      ELSE createDirectLoxiModelList_ports(ing, eps, svc, podList, svcNs, svcName,
                               selStr, Tail(ports),
                               Append(acc, [Service |-> loxisvc, Endpoints |-> loxiep.eps]))

createDirectLoxiModelList(ing, eps, svcs, podsOf) ==
    IF "loxilb.io/direct-loadbalance-service" \notin DOMAIN ing.Annotations
    THEN [models |-> <<>>, err |-> "no service name"]
    ELSE LET svcName == ing.Annotations["loxilb.io/direct-loadbalance-service"]
             svcNs   == IF "loxilb.io/direct-loadbalance-namespace" \in DOMAIN ing.Annotations
                        THEN ing.Annotations["loxilb.io/direct-loadbalance-namespace"]
                        ELSE ing.Namespace
             selStr  == IF "loxilb.io/epselect" \in DOMAIN ing.Annotations
                        THEN ing.Annotations["loxilb.io/epselect"]
                        ELSE EndPointSel_RR
             svc     == GetService(svcs, svcNs, svcName)
         IN  IF svc = Nil
             THEN [models |-> <<>>, err |-> "get service"]
             ELSE createDirectLoxiModelList_ports(ing, eps, svc, ListPods(podsOf, svcNs, svcName),
                      svcNs, svcName, selStr, svc.Ports, <<>>)

\* mode selection of Reconcile
BuildModels(ing, eps, svcs, podsOf) ==
    IF "loxilb.io/direct-loadbalance-service" \in DOMAIN ing.Annotations
    THEN createDirectLoxiModelList(ing, eps, svcs, podsOf)
    ELSE createLoxiModelList(ing, eps)

----------------------------------------------------------------------------
(* State differ: the nextModel loop of Reconcile *)

EndpointsMatch(model, lbItem) ==
    /\ lbItem.Service.Name = model.Service.Name
    /\ Len(lbItem.Endpoints) = Len(model.Endpoints)
    /\ \A i \in 1..Len(model.Endpoints) :
          \E j \in 1..Len(lbItem.Endpoints) :
             /\ model.Endpoints[i].EndpointIP = lbItem.Endpoints[j].EndpointIP
             /\ model.Endpoints[i].TargetPort = lbItem.Endpoints[j].TargetPort

\* mutant: endpoints compared position by position
Differ_Positional(desired, items) ==
    SelectSeq(desired, LAMBDA model :
        ~ \E lbItem \in items :
             /\ lbItem.Service.Name = model.Service.Name
             /\ Len(lbItem.Endpoints) = Len(model.Endpoints)
             /\ \A i \in 1..Len(model.Endpoints) :
                   /\ model.Endpoints[i].EndpointIP = lbItem.Endpoints[i].EndpointIP
                   /\ model.Endpoints[i].TargetPort = lbItem.Endpoints[i].TargetPort)

\* mutant: a listed rule also has to carry the service attributes of the model
Differ_WholeService(desired, items) ==
    SelectSeq(desired, LAMBDA model :
        ~ \E lbItem \in items :
             lbItem.Service = model.Service /\ EndpointsMatch(model, lbItem))

Differ(desired, items) ==
    SelectSeq(desired, LAMBDA model : ~ \E lbItem \in items : EndpointsMatch(model, lbItem))

----------------------------------------------------------------------------
(* Remote rule store (LoxiClient.LoadBalancer()): Create replaces the rule   *)
(* of the same name, DeleteByName removes it, List returns every rule.       *)

StoreCreate(st, m) == {x \in st : x.Service.Name # m.Service.Name} \cup {m}

StoreDeleteByName(st, name) == {x \in st : x.Service.Name # name}

\* answer of Create: a hard failure, "lbrule-exists error" for a rule that is
\* already installed as given, nil otherwise
CreateAnswer(st, m, fails) ==
    IF fails THEN "create failed"
    ELSE IF m \in st THEN "lbrule-exists error"
    ELSE ""

----------------------------------------------------------------------------
(* Status reflector: updateIngressStatus *)

\* a Go map lookup: the zero value for a missing key
AnnotationOr(ann, k) == IF k \in DOMAIN ann THEN ann[k] ELSE ""

\* mutant: only the IP is compared
checkIngressLoadBalancerIngressExist_IPOnly(statusList, serviceIngress) ==
    \E k \in 1..Len(statusList) :
        statusList[k].IP # "" /\ statusList[k].IP = serviceIngress.IP

checkIngressLoadBalancerIngressExist(statusList, serviceIngress) ==
    \E k \in 1..Len(statusList) :
        \/ statusList[k].IP # "" /\ statusList[k].IP = serviceIngress.IP
        \/ statusList[k].Hostname # "" /\ statusList[k].Hostname = serviceIngress.Hostname

\* the key of the status source; look is FALSE when no lookup is made at all
lbSvcKey(ing) ==
    IF "gateway-api-controller" \in DOMAIN ing.Annotations
    THEN IF ing.Annotations["gateway-api-controller"] = "loxilb.io/loxilb"
         THEN [look |-> TRUE,
               Namespace |-> AnnotationOr(ing.Annotations, "parent-gateway-namespace"),
               Name |-> AnnotationOr(ing.Annotations, "parent-gateway") \o "-ingress-service"]
         ELSE [look |-> TRUE, Namespace |-> "", Name |-> ""]
    ELSE IF "loadbalancer-service" \in DOMAIN ing.Annotations
         THEN [look |-> TRUE,
               Namespace |-> IF "loadbalancer-service-namespace" \in DOMAIN ing.Annotations
                             THEN ing.Annotations["loadbalancer-service-namespace"]
                             ELSE "default",
               Name |-> ing.Annotations["loadbalancer-service"]]
         ELSE [look |-> FALSE, Namespace |-> "", Name |-> ""]

\* the loop over svc.Status.LoadBalancer.Ingress: an entry is appended unless
\* the list built so far holds its IP or its hostname
RECURSIVE AppendNewEntries(_, _)
AppendNewEntries(statusList, entries) ==
    IF entries = <<>> THEN statusList
    ELSE IF checkIngressLoadBalancerIngressExist(statusList, Head(entries))
         THEN AppendNewEntries(statusList, Tail(entries))
         ELSE AppendNewEntries(
                  Append(statusList, [IP |-> Head(entries).IP,
                                      Hostname |-> Head(entries).Hostname,
                                      Ports |-> Head(entries).Ports]),
                  Tail(entries))

\* [status: what the object store holds afterwards, calls, err]; the write
\* is logged with the list the Ingress was read with and the list sent
updateIngressStatus(ing, statusList, svcs, updOK) ==
    LET key == lbSvcKey(ing)
        svc == GetService(svcs, key.Namespace, key.Name)
    IN  IF ~key.look THEN [status |-> statusList, calls |-> <<>>, err |-> ""]
        ELSE IF svc = Nil
        THEN [status |-> statusList,
              calls |-> <<[op |-> "GetStatusSource", err |-> "get service"]>>,
              err |-> "get service"]
        ELSE LET new == AppendNewEntries(statusList, svc.Status)
                 err == IF updOK THEN "" ELSE "update failed"
             IN  [status |-> IF updOK THEN new ELSE statusList,
                  calls |-> <<[op |-> "GetStatusSource", err |-> ""],
                              [op |-> "StatusUpdate", from |-> statusList, status |-> new,
                               err |-> err]>>,
                  err |-> err]

----------------------------------------------------------------------------
(* Reconcile: one pass for one RouteSource *)

RuleName(req)      == req.Namespace \o "_" \o req.Name
RuleNameHTTPS(req) == req.Namespace \o "_" \o req.Name \o "_https"

RequeueAfterSeconds == 30

\* the three ways Reconcile returns
ReturnError(err) == [err |-> err, RequeueAfter |-> 0]
ReturnDone       == [err |-> "", RequeueAfter |-> 0]

\* mutant: success without the re-poll hint
ReturnRequeue_NoHint == [err |-> "", RequeueAfter |-> 0]

ReturnRequeue    == [err |-> "", RequeueAfter |-> RequeueAfterSeconds]

\* mutant: only the plain rule is deleted
DeleteInstalled_PlainOnly(req, st, currLBList, delFail) ==
    LET exist == \E lbItem \in currLBList : lbItem.Service.Name = RuleName(req)
        cs    == IF exist
                 THEN <<[op |-> "DeleteByName", name |-> RuleName(req),
                         err |-> IF RuleName(req) \in delFail THEN "delete failed" ELSE ""]>>
                 ELSE <<>>
        gone  == {cs[i].name : i \in {j \in 1..Len(cs) : cs[j].err = ""}}
    IN  [store |-> {x \in st : x.Service.Name \notin gone}, calls |-> cs]

\* the two guarded DeleteByName calls shared by the not-found and the build-error path
DeleteInstalled(req, st, currLBList, delFail) ==
    LET exist      == \E lbItem \in currLBList : lbItem.Service.Name = RuleName(req)
        existHTTPS == \E lbItem \in currLBList :
                         /\ lbItem.Service.Name # RuleName(req)
                         /\ lbItem.Service.Name = RuleNameHTTPS(req)
        c1  == IF exist
               THEN <<[op |-> "DeleteByName", name |-> RuleName(req),
                       err |-> IF RuleName(req) \in delFail THEN "delete failed" ELSE ""]>>
               ELSE <<>>
        c2  == IF existHTTPS
               THEN <<[op |-> "DeleteByName", name |-> RuleNameHTTPS(req),
                       err |-> IF RuleNameHTTPS(req) \in delFail THEN "delete failed" ELSE ""]>>
               ELSE <<>>
        cs  == c1 \o c2
        gone == {cs[i].name : i \in {j \in 1..Len(cs) : cs[j].err = ""}}
    IN  [store |-> {x \in st : x.Service.Name \notin gone}, calls |-> cs]

\* mutant: the loop goes on after a Create that failed
RECURSIVE ApplyLoop_KeepsGoing(_, _, _, _)
ApplyLoop_KeepsGoing(st, todo, i, failAt) ==
    IF i > Len(todo) THEN [store |-> st, calls |-> <<>>, err |-> ""]
    ELSE LET model == todo[i]
             err   == CreateAnswer(st, model, i = failAt)
             call  == [op |-> "Create", model |-> model, err |-> err]
             rest  == ApplyLoop_KeepsGoing(IF err = "" THEN StoreCreate(st, model) ELSE st,
                                           todo, i + 1, failAt)
         IN  [store |-> rest.store, calls |-> <<call>> \o rest.calls,
              err |-> IF err # "" /\ err # "lbrule-exists error" THEN err ELSE rest.err]

\* the Create loop over applyModels: "lbrule-exists error" is skipped, any other
\* error ends the loop; failAt is the index of the call that fails hard (0: none)
RECURSIVE ApplyLoop(_, _, _, _)
ApplyLoop(st, todo, i, failAt) ==
    IF i > Len(todo) THEN [store |-> st, calls |-> <<>>, err |-> ""]
    ELSE LET model == todo[i]
             err   == CreateAnswer(st, model, i = failAt)
             call  == [op |-> "Create", model |-> model, err |-> err]
         IN  IF err # "" /\ err # "lbrule-exists error"
             THEN [store |-> st, calls |-> <<call>>, err |-> err]
             ELSE LET rest == ApplyLoop(IF err = "" THEN StoreCreate(st, model) ELSE st,
                                        todo, i + 1, failAt)
                  IN  [store |-> rest.store, calls |-> <<call>> \o rest.calls, err |-> rest.err]

ListCall(err) == [op |-> "List", err |-> err]
GetCall(err)  == [op |-> "Get", err |-> err]

\* what a pass leaves behind: the two stores, what it listed, built and chose to
\* create, the collaborator calls it issued, and what it returned
PassRecord(st, statusList) ==
    [store |-> st, status |-> statusList, snapshot |-> st, models |-> <<>>,
     buildErr |-> "", applyModels |-> <<>>, calls |-> <<>>, result |-> ReturnDone]

\* mutant: a failed list is taken for an empty one and the pass re-polls
FetchFailed_Swallowed(st, statusList) ==
    [PassRecord(st, statusList) EXCEPT
        !.snapshot = {},
        !.calls = <<ListCall("list failed")>>,
        !.result = ReturnRequeue]

\* the remote list failed: nothing else is done
FetchFailed(st, statusList) ==
    [PassRecord(st, statusList) EXCEPT
        !.snapshot = {},
        !.calls = <<ListCall("list failed")>>,
        !.result = ReturnError("list failed")]

\* reading the Ingress failed with an error other than not-found
GetFailed(st, statusList) ==
    [PassRecord(st, statusList) EXCEPT
        !.calls = <<ListCall(""), GetCall("get failed")>>,
        !.result = ReturnError("get failed")]

\* the Ingress is gone
Deleted(req, st, statusList, delFail) ==
    LET del == DeleteInstalled(req, st, st, delFail)
    IN  [PassRecord(st, statusList) EXCEPT
            !.store = del.store,
            !.calls = <<ListCall(""), GetCall("not found")>> \o del.calls,
            !.result = ReturnDone]

\* mutant: a build failure leaves the installed rules alone
RollbackOnError_NoDelete(req, st, statusList, built, delFail) ==
    [PassRecord(st, statusList) EXCEPT
        !.models = built.models,
        !.buildErr = built.err,
        !.calls = <<ListCall(""), GetCall("")>>,
        !.result = ReturnError(built.err)]

\* building the models failed
RollbackOnError(req, st, statusList, built, delFail) ==
    LET del == DeleteInstalled(req, st, st, delFail)
    IN  [PassRecord(st, statusList) EXCEPT
            !.store = del.store,
            !.models = built.models,
            !.buildErr = built.err,
            !.calls = <<ListCall(""), GetCall("")>> \o del.calls,
            !.result = ReturnError(built.err)]

\* mutant: a pass with nothing to create clears the store
NoChange_Clears(st, statusList, built) ==
    [PassRecord(st, statusList) EXCEPT
        !.store = {},
        !.models = built.models,
        !.calls = <<ListCall(""), GetCall("")>>,
        !.result = ReturnRequeue]

\* nothing to create
NoChange(st, statusList, built) ==
    [PassRecord(st, statusList) EXCEPT
        !.models = built.models,
        !.calls = <<ListCall(""), GetCall("")>>,
        !.result = ReturnRequeue]

\* the create loop and, when it went through, the status update
Apply(st, statusList, ing, svcs, built, apply, failAt, updOK) ==
    LET done == ApplyLoop(st, apply, 1, failAt)
        made == [PassRecord(st, statusList) EXCEPT
                    !.store = done.store,
                    !.models = built.models,
                    !.applyModels = apply,
                    !.calls = <<ListCall(""), GetCall("")>> \o done.calls]
    IN  IF done.err # ""
        THEN [made EXCEPT !.result = ReturnError(done.err)]
        ELSE LET upd == updateIngressStatus(ing, statusList, svcs, updOK)
             IN  [made EXCEPT !.status = upd.status,
                              !.calls = @ \o upd.calls,
                              !.result = ReturnRequeue]

\* the whole of Reconcile as a function of what it reads and of how the
\* collaborators answer (listOK, getOK, delFail, failAt, updOK)
ReconcilePass(req, st, ing, eps, svcs, podsOf, statusList, listOK, getOK, delFail, failAt, updOK) ==
    IF ~listOK THEN FetchFailed(st, statusList)
    ELSE IF ~getOK THEN GetFailed(st, statusList)
    ELSE IF ing = Nil THEN Deleted(req, st, statusList, delFail)
    ELSE LET built == BuildModels(ing, eps, svcs, podsOf)
         IN  IF built.err # ""
             THEN RollbackOnError(req, st, statusList, built, delFail)
             ELSE LET apply == Differ(built.models, st)
                  IN  IF Len(apply) <= 0
                      THEN NoChange(st, statusList, built)
                      ELSE Apply(st, statusList, ing, svcs, built, apply, failAt, updOK)

----------------------------------------------------------------------------
(* The objects of the bounded world *)

R1 == [Namespace |-> "ns", Name |-> "app"]
Sources == {R1}

NoAnnotations == [k \in {} |-> ""]

MakeIngress(req, ann, rules, tls) ==
    [Namespace |-> req.Namespace, Name |-> req.Name, Annotations |-> ann,
     Rules |-> rules, TLS |-> tls]

TLSSet == {<<>>, <<[Hosts |-> <<"a.com">>]>>}

DirectAnnotations ==
    {("loxilb.io/direct-loadbalance-service" :> "svc2"),
     ("loxilb.io/direct-loadbalance-service" :> "svc2")
        @@ ("loxilb.io/direct-loadbalance-namespace" :> "ns2"),
     ("loxilb.io/direct-loadbalance-service" :> "svc2")
        @@ ("loxilb.io/direct-loadbalance-namespace" :> "ns2")
        @@ ("loxilb.io/epselect" :> "hash")}

PortSet ==
    {[Port |-> 9090, Protocol |-> "TCP",
      TargetPort |-> [Type |-> "String", IntVal |-> 0, StrVal |-> "web"]],
     [Port |-> 8080, Protocol |-> "TCP",
      TargetPort |-> [Type |-> "Int", IntVal |-> 8080, StrVal |-> ""]]}

WebPod == [Containers |-> <<[Ports |-> <<[Name |-> "web", ContainerPort |-> 9090]>>]>>]

IPsOf(name) == IF name = "svc" THEN <<"10.0.0.5", "10.0.0.6">> ELSE <<"10.0.1.7">>

\* the address lists of one subset: none, each single address, all of them in order
AddrLists(ips) == {<<>>, ips} \cup {<<ips[i]>> : i \in 1..Len(ips)}

PortOf(name) == IF name = "svc" THEN 8080 ELSE 9090

\* the Endpoints objects the driver moves between: no subset, one subset with
\* some or all addresses, one subset per address in reverse order, no object
DriverEndpoints(name) ==
    {[Subsets |-> <<>>], Nil}
    \cup {[Subsets |-> <<[Addresses |-> a, Ports |-> <<PortOf(name)>>]>>] :
             a \in AddrLists(IPsOf(name)) \ {<<>>}}
    \cup {[Subsets |-> [i \in 1..Len(IPsOf(name)) |->
                          [Addresses |-> <<IPsOf(name)[Len(IPsOf(name)) + 1 - i]>>,
                           Ports |-> <<PortOf(name)>>]]]}

ObjectKeys == {<<"ns", "svc">>, <<"ns", "svc2">>, <<"ns2", "svc2">>}

\* the world a pass of the driver starts from: every backend ready
ReadyEndpoints ==
    [k \in ObjectKeys |->
        [Subsets |-> <<[Addresses |-> IPsOf(k[2]), Ports |-> <<PortOf(k[2])>>]>>]]

DefaultServices ==
    [k \in ObjectKeys |->
        IF k[2] = "svc2"
        THEN [Ports |-> <<CHOOSE p \in PortSet : p.Port = 9090>>]
        ELSE [Ports |-> <<CHOOSE p \in PortSet : p.Port = 8080>>]]

DefaultPods == [k \in ObjectKeys |-> [Items |-> IF k[2] = "svc2" THEN <<WebPod>> ELSE <<>>]]

\* the rules of the driver's Ingresses, one path each: the TLS-capable host and
\* the other host on the same backend, the other host on a second backend
SimpleRules ==
    {[Host |-> "a.com", HTTP |-> [Paths |-> <<[Service |-> [Name |-> "svc", Port |-> 8080]]>>]],
     [Host |-> "b.com", HTTP |-> [Paths |-> <<[Service |-> [Name |-> "svc", Port |-> 8080]]>>]],
     [Host |-> "b.com", HTTP |-> [Paths |-> <<[Service |-> [Name |-> "svc2", Port |-> 9090]]>>]]}

DriverIngresses(req) ==
    {MakeIngress(req, NoAnnotations, rules, tls) :
        rules \in SeqsUpTo(SimpleRules, MaxRules) \ {<<>>}, tls \in TLSSet}
    \cup {MakeIngress(req, ann, <<>>, <<>>) : ann \in DirectAnnotations}

IsDirect(ing) == "loxilb.io/direct-loadbalance-service" \in DOMAIN ing.Annotations

DriverServices(ing) ==
    IF IsDirect(ing)
    THEN {[DefaultServices EXCEPT ![<<"ns2", "svc2">>] = [Ports |-> ports]] :
             ports \in SeqsUpTo(PortSet, MaxPorts)}
    ELSE {DefaultServices}

DriverPods(ing) ==
    IF IsDirect(ing)
    THEN {DefaultPods, [DefaultPods EXCEPT ![<<"ns2", "svc2">>] = [Items |-> <<>>]]}
    ELSE {DefaultPods}

----------------------------------------------------------------------------
(* Initial state and actions *)

Init ==
    /\ ingress \in [Sources -> UNION {DriverIngresses(req) : req \in Sources}]
    /\ \A req \in Sources : ingress[req] \in DriverIngresses(req)
    /\ endpoints = ReadyEndpoints
    /\ \E req \in Sources : /\ services \in DriverServices(ingress[req])
                            /\ pods \in DriverPods(ingress[req])
    /\ store = {}
    /\ queued = [req \in Sources |-> TRUE]
    /\ changes = 0
    /\ snapshot = [req \in Sources |-> {}]
    /\ models = [req \in Sources |-> <<>>]
    /\ buildErr = [req \in Sources |-> ""]
    /\ applyModels = [req \in Sources |-> <<>>]
    /\ calls = [req \in Sources |-> <<>>]
    /\ result = [req \in Sources |-> ReturnDone]
    /\ streak = [req \in Sources |-> 0]
    /\ fresh = [req \in Sources |-> FALSE]
    /\ owned = [req \in Sources |-> {}]
    /\ status = [req \in Sources |-> <<>>]

\* the pass with the given answers of the collaborators
Pass(req, listOK, getOK, delFail, failAt, updOK) ==
    /\ queued[req]
    /\ \E out \in {ReconcilePass(req, store, ingress[req], endpoints, services, pods,
                                 status[req], listOK, getOK, delFail, failAt, updOK)} :
           /\ store' = out.store
           /\ status' = [status EXCEPT ![req] = out.status]
           /\ snapshot' = [snapshot EXCEPT ![req] = out.snapshot]
           /\ models' = [models EXCEPT ![req] = out.models]
           /\ buildErr' = [buildErr EXCEPT ![req] = out.buildErr]
           /\ applyModels' = [applyModels EXCEPT ![req] = out.applyModels]
           /\ calls' = [calls EXCEPT ![req] = out.calls]
           /\ result' = [result EXCEPT ![req] = out.result]
           \* an error is retried by the work queue, a RequeueAfter re-polls
           /\ queued' = [queued EXCEPT ![req] = out.result.err # "" \/ out.result.RequeueAfter > 0]
           /\ streak' = [streak EXCEPT ![req] =
                            IF out.result.err = "" /\ ingress[req] # Nil
                            THEN (IF streak[req] < 2 THEN streak[req] + 1 ELSE 2)
                            ELSE 0]
           /\ fresh' = [fresh EXCEPT ![req] = TRUE]
           /\ owned' = [owned EXCEPT ![req] =
                           @ \cup {out.calls[i].model.Service.Name :
                                     i \in {j \in 1..Len(out.calls) :
                                              /\ out.calls[j].op = "Create"
                                              /\ out.calls[j].err = ""}}]
    /\ UNCHANGED <<ingress, endpoints, services, pods, changes>>

\* a pass in which every collaborator answers
Reconcile(req) == Pass(req, TRUE, TRUE, {}, 0, TRUE)

\* a pass in which the remote list, the object read, some delete or one create fails
ReconcileFailing(req) ==
    \/ Pass(req, FALSE, TRUE, {}, 0, TRUE)
    \/ Pass(req, TRUE, FALSE, {}, 0, TRUE)
    \/ \E delFail \in (SUBSET {RuleName(req), RuleNameHTTPS(req)}) \ {{}} :
          /\ \E lbItem \in store : lbItem.Service.Name \in delFail
          /\ Pass(req, TRUE, TRUE, delFail, 0, TRUE)
    \/ \E failAt \in 1..(MaxRules + MaxPorts) :
          /\ ingress[req] # Nil
          /\ failAt <= Len(BuildModels(ingress[req], endpoints, services, pods).models)
          /\ Pass(req, TRUE, TRUE, {}, failAt, TRUE)

\* the Ingress is deleted: the delete event queues a request
IngressDelete(req) ==
    /\ changes < MaxChanges
    /\ ingress[req] # Nil
    /\ ingress' = [ingress EXCEPT ![req] = Nil]
    /\ queued' = [queued EXCEPT ![req] = TRUE]
    /\ changes' = changes + 1
    /\ streak' = [r \in DOMAIN streak |-> 0]
    /\ fresh' = [r \in DOMAIN fresh |-> FALSE]
    /\ status' = [status EXCEPT ![req] = <<>>]
    /\ UNCHANGED <<endpoints, services, pods, store, snapshot, models, buildErr,
                   applyModels, calls, result, owned>>

\* the TLS bindings of the Ingress change: update events are filtered out, no request
IngressUpdateTLS(req) ==
    /\ changes < MaxChanges
    /\ ingress[req] # Nil
    /\ ~IsDirect(ingress[req])
    /\ \E tls \in TLSSet \ {ingress[req].TLS} :
          ingress' = [ingress EXCEPT ![req].TLS = tls]
    /\ changes' = changes + 1
    /\ streak' = [r \in Sources |-> 0]
    /\ fresh' = [r \in Sources |-> FALSE]
    /\ UNCHANGED <<endpoints, services, pods, store, queued, snapshot, models, buildErr,
                   applyModels, calls, result, owned, status>>

\* the Endpoints objects an Ingress resolves its backends from
Refers(ing, key) ==
    IF IsDirect(ing)
    THEN key = <<IF "loxilb.io/direct-loadbalance-namespace" \in DOMAIN ing.Annotations
                 THEN ing.Annotations["loxilb.io/direct-loadbalance-namespace"]
                 ELSE ing.Namespace,
                 ing.Annotations["loxilb.io/direct-loadbalance-service"]>>
    ELSE \E i \in 1..Len(ing.Rules) :
            /\ ing.Rules[i].HTTP # Nil
            /\ \E j \in 1..Len(ing.Rules[i].HTTP.Paths) :
                  LET svc == ing.Rules[i].HTTP.Paths[j].Service
                  IN  svc # Nil /\ key = <<getBackendServiceNamespace(ing, svc.Name), svc.Name>>

\* the ready addresses of a backend of some Ingress change (or its Endpoints
\* object disappears)
EndpointsUpdate(key) ==
    /\ changes < MaxChanges
    /\ \E req \in Sources : ingress[req] # Nil /\ Refers(ingress[req], key)
    /\ \E ep \in DriverEndpoints(key[2]) :
          /\ ep # endpoints[key]
          /\ endpoints' = [endpoints EXCEPT ![key] = ep]
    /\ changes' = changes + 1
    /\ streak' = [r \in Sources |-> 0]
    /\ fresh' = [r \in Sources |-> FALSE]
    /\ UNCHANGED <<ingress, services, pods, store, queued, snapshot, models, buildErr,
                   applyModels, calls, result, owned, status>>

Next ==
    \/ \E req \in Sources : Reconcile(req)
    \/ \E req \in Sources : ReconcileFailing(req)
    \/ \E req \in Sources : IngressDelete(req)
    \/ \E req \in Sources : IngressUpdateTLS(req)
    \/ \E key \in ObjectKeys : EndpointsUpdate(key)

Spec == Init /\ [][Next]_vars

\* the remote store and the object store never fail
NextReliable ==
    \/ \E req \in Sources : Reconcile(req)
    \/ \E req \in Sources : IngressDelete(req)
    \/ \E req \in Sources : IngressUpdateTLS(req)
    \/ \E key \in ObjectKeys : EndpointsUpdate(key)

SpecReliable == Init /\ [][NextReliable]_vars

----------------------------------------------------------------------------
(* The driver with a status source: Ingresses that name the service whose    *)
(* external addresses are copied onto their status                           *)

TCP80 == [Port |-> 80, Protocol |-> "TCP", Error |-> ""]

\* entries of svc.Status.LoadBalancer.Ingress: an IP, a hostname, another IP
\* under the same hostname, and an entry with neither
ByIP       == [IP |-> "192.0.2.1", Hostname |-> "", Ports |-> <<TCP80>>]
ByHostname == [IP |-> "", Hostname |-> "lb.example.com", Ports |-> <<>>]
ByBoth     == [IP |-> "192.0.2.2", Hostname |-> "lb.example.com", Ports |-> <<TCP80>>]
ByNeither  == [IP |-> "", Hostname |-> "", Ports |-> <<TCP80>>]

StatusLists ==
    {<<>>, <<ByIP>>, <<ByIP, ByIP>>, <<ByHostname, ByBoth>>, <<ByBoth, ByHostname>>,
     <<ByNeither>>, <<ByIP, ByNeither>>}

\* the annotations updateIngressStatus reads: the named service in the default
\* namespace, the service of the parent gateway, a foreign gateway controller
\* (empty key), and a namespace without a service name (no lookup)
StatusAnnotations ==
    {("loadbalancer-service" :> "lb"),
     ("gateway-api-controller" :> "loxilb.io/loxilb")
        @@ ("parent-gateway" :> "gw") @@ ("parent-gateway-namespace" :> "ns"),
     ("gateway-api-controller" :> "other"),
     ("loadbalancer-service-namespace" :> "ns")}

StatusSourceKeys == {<<"default", "lb">>, <<"ns", "gw-ingress-service">>}

\* one plain rule, the same rule twice, or a TLS rule and a plain rule on two
\* backends
StatusSpecs ==
    {[Rules |-> <<CHOOSE r \in SimpleRules : r.Host = "a.com">>, TLS |-> <<>>],
     [Rules |-> <<CHOOSE r \in SimpleRules : r.Host = "a.com",
                  CHOOSE r \in SimpleRules : r.Host = "a.com">>, TLS |-> <<>>],
     [Rules |-> <<CHOOSE r \in SimpleRules : r.Host = "a.com",
                  CHOOSE r \in SimpleRules :
                      r.Host = "b.com" /\ r.HTTP.Paths[1].Service.Name = "svc2">>,
      TLS |-> <<[Hosts |-> <<"a.com">>]>>]}

StatusIngresses(req) ==
    {MakeIngress(req, ann, spec.Rules, spec.TLS) : ann \in StatusAnnotations, spec \in StatusSpecs}

\* the object store with the status source reporting the given entries, or without it
StatusServices ==
    {DefaultServices}
    \cup {[k \in ObjectKeys \cup StatusSourceKeys |->
              IF k \in StatusSourceKeys
              THEN [Ports |-> <<>>, Status |-> list]
              ELSE DefaultServices[k]] : list \in StatusLists}

InitStatus ==
    /\ ingress \in [Sources -> UNION {StatusIngresses(req) : req \in Sources}]
    /\ \A req \in Sources : ingress[req] \in StatusIngresses(req)
    /\ endpoints = ReadyEndpoints
    /\ services \in StatusServices
    /\ pods = DefaultPods
    /\ store = {}
    /\ queued = [req \in Sources |-> TRUE]
    /\ changes = 0
    /\ snapshot = [req \in Sources |-> {}]
    /\ models = [req \in Sources |-> <<>>]
    /\ buildErr = [req \in Sources |-> ""]
    /\ applyModels = [req \in Sources |-> <<>>]
    /\ calls = [req \in Sources |-> <<>>]
    /\ result = [req \in Sources |-> ReturnDone]
    /\ streak = [req \in Sources |-> 0]
    /\ fresh = [req \in Sources |-> FALSE]
    /\ owned = [req \in Sources |-> {}]
    /\ status = [req \in Sources |-> <<>>]

\* a pass in which the status write fails
ReconcileStatusFailing(req) ==
    /\ ingress[req] # Nil
    /\ lbSvcKey(ingress[req]).look
    /\ Pass(req, TRUE, TRUE, {}, 0, FALSE)

NextStatus ==
    \/ \E req \in Sources : Reconcile(req)
    \/ \E req \in Sources : ReconcileFailing(req)
    \/ \E req \in Sources : ReconcileStatusFailing(req)
    \/ \E req \in Sources : IngressDelete(req)
    \/ \E key \in ObjectKeys : EndpointsUpdate(key)

SpecStatus == InitStatus /\ [][NextStatus]_vars

----------------------------------------------------------------------------
(* The path-routed builder on its own: an Ingress with one rule against the  *)
(* Endpoints object of its backend                                           *)

\* the port numbers a path declares and the port records a subset lists
DeclaredPorts == {80, 8080, 9090}
RecordedPorts == {8080, 9090}

BuildPaths ==
    {[i \in 1..Len(q) |-> [Service |-> [Name |-> "svc", Port |-> q[i]]]] :
        q \in SeqsUpTo(DeclaredPorts, MaxPaths) \ {<<>>}}

BuildIngresses(req) ==
    {MakeIngress(req, NoAnnotations, <<[Host |-> "a.com", HTTP |-> [Paths |-> paths]]>>, tls) :
        paths \in BuildPaths, tls \in TLSSet}

BuildSubsets ==
    {[Addresses |-> a, Ports |-> <<p>>] :
        a \in AddrLists(IPsOf("svc")), p \in RecordedPorts}

BuildEndpoints ==
    {[ReadyEndpoints EXCEPT ![<<"ns", "svc">>] = [Subsets |-> sub]] :
        sub \in SeqsUpTo(BuildSubsets, MaxSubsets)}

InitBuild ==
    /\ ingress \in [Sources -> UNION {BuildIngresses(req) : req \in Sources}]
    /\ \A req \in Sources : ingress[req] \in BuildIngresses(req)
    /\ endpoints \in BuildEndpoints
    /\ services = DefaultServices
    /\ pods = DefaultPods
    /\ store = {}
    /\ queued = [req \in Sources |-> TRUE]
    /\ changes = 0
    /\ snapshot = [req \in Sources |-> {}]
    /\ models = [req \in Sources |-> <<>>]
    /\ buildErr = [req \in Sources |-> ""]
    /\ applyModels = [req \in Sources |-> <<>>]
    /\ calls = [req \in Sources |-> <<>>]
    /\ result = [req \in Sources |-> ReturnDone]
    /\ streak = [req \in Sources |-> 0]
    /\ fresh = [req \in Sources |-> FALSE]
    /\ owned = [req \in Sources |-> {}]
    /\ status = [req \in Sources |-> <<>>]

\* the builder applied to the Ingress and the object store
Build(req) ==
    /\ queued[req]
    /\ \E out \in {BuildModels(ingress[req], endpoints, services, pods)} :
          /\ models' = [models EXCEPT ![req] = out.models]
          /\ buildErr' = [buildErr EXCEPT ![req] = out.err]
    /\ queued' = [queued EXCEPT ![req] = FALSE]
    /\ UNCHANGED <<ingress, endpoints, services, pods, store, changes, snapshot,
                   applyModels, calls, result, streak, fresh, owned, status>>

NextBuild == \E req \in Sources : Build(req)

SpecBuild == InitBuild /\ [][NextBuild]_vars

----------------------------------------------------------------------------
(* The heartbeat: one path-routed Ingress with a single backend; the ready   *)
(* addresses of the backend change without any event reaching the           *)
(* controller, which watches Ingress objects only, and the passes go on by  *)
(* the re-poll each of them asks for.                                       *)

HeartbeatIngresses(req) ==
    {MakeIngress(req, NoAnnotations,
                 <<[Host |-> "a.com",
                    HTTP |-> [Paths |-> <<[Service |-> [Name |-> "svc", Port |-> 8080]]>>]]>>,
                 tls) : tls \in TLSSet}

\* the Endpoints objects of the backend with at least one ready address: up to
\* MaxSubsets subsets, each with one or both addresses
HeartbeatEndpoints ==
    {[Subsets |-> sub] :
        sub \in SeqsUpTo({[Addresses |-> a, Ports |-> <<PortOf("svc")>>] :
                             a \in AddrLists(IPsOf("svc")) \ {<<>>}},
                         MaxSubsets) \ {<<>>}}

InitHeartbeat ==
    /\ ingress \in [Sources -> UNION {HeartbeatIngresses(req) : req \in Sources}]
    /\ \A req \in Sources : ingress[req] \in HeartbeatIngresses(req)
    /\ \E ep \in HeartbeatEndpoints :
          endpoints = [ReadyEndpoints EXCEPT ![<<"ns", "svc">>] = ep]
    /\ services = DefaultServices
    /\ pods = DefaultPods
    /\ store = {}
    /\ queued = [req \in Sources |-> TRUE]
    /\ changes = 0
    /\ snapshot = [req \in Sources |-> {}]
    /\ models = [req \in Sources |-> <<>>]
    /\ buildErr = [req \in Sources |-> ""]
    /\ applyModels = [req \in Sources |-> <<>>]
    /\ calls = [req \in Sources |-> <<>>]
    /\ result = [req \in Sources |-> ReturnDone]
    /\ streak = [req \in Sources |-> 0]
    /\ fresh = [req \in Sources |-> FALSE]
    /\ owned = [req \in Sources |-> {}]
    /\ status = [req \in Sources |-> <<>>]

\* the ready addresses of the backend change and stay non-empty: no event is
\* delivered for an Endpoints object, so no request is queued
EndpointsChange(key) ==
    /\ changes < MaxChanges
    /\ \E ep \in HeartbeatEndpoints :
          /\ ep # endpoints[key]
          /\ endpoints' = [endpoints EXCEPT ![key] = ep]
    /\ changes' = changes + 1
    /\ streak' = [r \in Sources |-> 0]
    /\ fresh' = [r \in Sources |-> FALSE]
    /\ UNCHANGED <<ingress, services, pods, store, queued, snapshot, models, buildErr,
                   applyModels, calls, result, owned, status>>

NextHeartbeat ==
    \/ \E req \in Sources : Reconcile(req)
    \/ EndpointsChange(<<"ns", "svc">>)

\* a queued request is eventually handed to Reconcile: the work queue delivers
\* the RequeueAfter re-poll and the retry of a failed pass
SpecHeartbeat ==
    /\ InitHeartbeat
    /\ [][NextHeartbeat]_vars
    /\ WF_vars(\E req \in Sources : Reconcile(req))

----------------------------------------------------------------------------
(* Two RouteSources of the same name in two namespaces. The controller runs  *)
(* one worker, so their passes follow one another in any order, each on the *)
(* remote store as the other left it.                                       *)

R2 == [Namespace |-> "ns2", Name |-> "app"]
BothSources == {R1, R2}

\* a path-routed Ingress with one rule, and the direct-service Ingresses: the
\* first RouteSource names the service of the other namespace
IsolationIngresses(req) ==
    {MakeIngress(req, NoAnnotations,
                 <<[Host |-> "a.com",
                    HTTP |-> [Paths |-> <<[Service |-> [Name |-> "svc2", Port |-> 9090]]>>]]>>,
                 tls) : tls \in TLSSet}
    \cup (IF req = R1
          THEN {MakeIngress(req, ann, <<>>, <<>>) : ann \in DirectAnnotations}
          ELSE {MakeIngress(req, "loxilb.io/direct-loadbalance-service" :> "svc2", <<>>, <<>>)})

InitIsolation ==
    /\ ingress \in [BothSources -> UNION {IsolationIngresses(req) : req \in BothSources}]
    /\ \A req \in BothSources : ingress[req] \in IsolationIngresses(req)
    /\ endpoints = ReadyEndpoints
    /\ services = DefaultServices
    /\ pods = DefaultPods
    /\ store = {}
    /\ queued = [req \in BothSources |-> TRUE]
    /\ changes = 0
    /\ snapshot = [req \in BothSources |-> {}]
    /\ models = [req \in BothSources |-> <<>>]
    /\ buildErr = [req \in BothSources |-> ""]
    /\ applyModels = [req \in BothSources |-> <<>>]
    /\ calls = [req \in BothSources |-> <<>>]
    /\ result = [req \in BothSources |-> ReturnDone]
    /\ streak = [req \in BothSources |-> 0]
    /\ fresh = [req \in BothSources |-> FALSE]
    /\ owned = [req \in BothSources |-> {}]
    /\ status = [req \in BothSources |-> <<>>]

NextIsolation ==
    \/ \E req \in BothSources : Reconcile(req)
    \/ \E req \in BothSources : IngressDelete(req)

SpecIsolation == InitIsolation /\ [][NextIsolation]_vars

----------------------------------------------------------------------------
(* The differ on its own: a desired model against a snapshot *)

DiffPairs == {<<"10.0.0.5", 8080>>, <<"10.0.0.6", 8080>>, <<"10.0.0.5", 9090>>}

\* endpoint lists of the given weight, as the resolver builds them (weight 1)
\* or as the store reports them
DiffEndpointLists(weight) ==
    {[i \in 1..Len(q) |-> [EndpointIP |-> q[i][1], TargetPort |-> q[i][2], Weight |-> weight]] :
        q \in SeqsUpTo(DiffPairs, MaxEndpoints) \ {<<>>}}

\* the plain or the TLS rule of R1 for the given host, as the builder names it
DiffService(security, host) ==
    createLoxiLoadBalancerService(R1.Namespace,
                                  IF security = 1 THEN R1.Name \o "_https" ELSE R1.Name,
                                  LoxiHost, security, host)

DiffDesired ==
    {[Service |-> DiffService(sec, "a.com"), Endpoints |-> e] :
        sec \in {0, 1}, e \in DiffEndpointLists(1)}

\* at most one rule of each name, with the weight of the builder or another
DiffSnapshots ==
    LET rulesOf(sec) ==
            {{}} \cup {{[Service |-> DiffService(sec, h), Endpoints |-> e]} :
                          h \in {"a.com"}, e \in DiffEndpointLists(1) \cup DiffEndpointLists(2)}
    IN  {a \cup b : a \in rulesOf(0), b \in rulesOf(1)}

InitDiff ==
    /\ ingress = [req \in Sources |-> Nil]
    /\ endpoints = ReadyEndpoints
    /\ services = DefaultServices
    /\ pods = DefaultPods
    /\ store = {}
    /\ queued = [req \in Sources |-> TRUE]
    /\ changes = 0
    /\ snapshot \in [Sources -> DiffSnapshots]
    /\ models \in [Sources -> {<<m>> : m \in DiffDesired}]
    /\ buildErr = [req \in Sources |-> ""]
    /\ applyModels = [req \in Sources |-> <<>>]
    /\ calls = [req \in Sources |-> <<>>]
    /\ result = [req \in Sources |-> ReturnDone]
    /\ streak = [req \in Sources |-> 0]
    /\ fresh = [req \in Sources |-> FALSE]
    /\ owned = [req \in Sources |-> {}]
    /\ status = [req \in Sources |-> <<>>]

\* the nextModel loop applied to the desired models and the snapshot
Diff(req) ==
    /\ queued[req]
    /\ applyModels' = [applyModels EXCEPT ![req] = Differ(models[req], snapshot[req])]
    /\ queued' = [queued EXCEPT ![req] = FALSE]
    /\ UNCHANGED <<ingress, endpoints, services, pods, store, changes, snapshot, models,
                   buildErr, calls, result, streak, fresh, owned, status>>

NextDiff == \E req \in Sources : Diff(req)

SpecDiff == InitDiff /\ [][NextDiff]_vars

----------------------------------------------------------------------------
(* The differ on models of one identity key that differ in the attributes    *)
(* of the service: exposed port, protocol and selection policy as the       *)
(* direct-service builder sets them, virtual host and external IP as the    *)
(* path-routed builder does, and the security flag.                         *)

AttrPairs == {<<"10.0.0.5", 8080>>, <<"10.0.0.6", 8080>>}

AttrEndpointLists ==
    {[i \in 1..Len(q) |-> [EndpointIP |-> q[i][1], TargetPort |-> q[i][2], Weight |-> 1]] :
        q \in SeqsUpTo(AttrPairs, MaxEndpoints) \ {<<>>}}

\* the services of key ns_app the two builders produce
AttrBuilt ==
    {createDirectLoxiLoadBalancerService(R1.Namespace, R1.Name, "0.0.0.0", protocol, "",
                                         epSelect, port) :
        protocol \in {"TCP", "UDP"}, epSelect \in {EndPointSel_RR, "hash"}, port \in {80, 8080}}
    \cup {createLoxiLoadBalancerService(R1.Namespace, R1.Name, LoxiHost, 0, host) :
             host \in {"a.com", "b.com"}}

\* and the same with the security flag set
AttrServices == AttrBuilt \cup {[svc EXCEPT !.Security = 1] : svc \in AttrBuilt}

AttrDesired == {[Service |-> svc, Endpoints |-> e] : svc \in AttrBuilt, e \in AttrEndpointLists}

\* no rule, or the one rule of the key
AttrSnapshots ==
    {{}} \cup {{[Service |-> svc, Endpoints |-> e]} :
                  svc \in AttrServices, e \in AttrEndpointLists}

InitAttr ==
    /\ ingress = [req \in Sources |-> Nil]
    /\ endpoints = ReadyEndpoints
    /\ services = DefaultServices
    /\ pods = DefaultPods
    /\ store = {}
    /\ queued = [req \in Sources |-> TRUE]
    /\ changes = 0
    /\ snapshot \in [Sources -> AttrSnapshots]
    /\ models \in [Sources -> {<<m>> : m \in AttrDesired}]
    /\ buildErr = [req \in Sources |-> ""]
    /\ applyModels = [req \in Sources |-> <<>>]
    /\ calls = [req \in Sources |-> <<>>]
    /\ result = [req \in Sources |-> ReturnDone]
    /\ streak = [req \in Sources |-> 0]
    /\ fresh = [req \in Sources |-> FALSE]
    /\ owned = [req \in Sources |-> {}]
    /\ status = [req \in Sources |-> <<>>]

SpecAttr == InitAttr /\ [][NextDiff]_vars

----------------------------------------------------------------------------
(* What the last pass of a RouteSource did, read from its call log *)

CreateCalls(req) == SelectSeq(calls[req], LAMBDA c : c.op = "Create")
DeleteCalls(req) == SelectSeq(calls[req], LAMBDA c : c.op = "DeleteByName")

Created(req) == {CreateCalls(req)[i].model : i \in 1..Len(CreateCalls(req))}
DeletedNames(req) == {DeleteCalls(req)[i].name : i \in 1..Len(DeleteCalls(req))}

OwnKeys(req) == {RuleName(req), RuleNameHTTPS(req)}
StoreNames == {x.Service.Name : x \in store}
SnapshotNames(req) == {x.Service.Name : x \in snapshot[req]}

StatusCalls(req) ==
    SelectSeq(calls[req], LAMBDA c : c.op \in {"GetStatusSource", "StatusUpdate"})
StatusWrites(req) == SelectSeq(calls[req], LAMBDA c : c.op = "StatusUpdate")

HardFailure(c) == c.err # "" /\ c.err # "lbrule-exists error"

LastPassNotFound(req) ==
    \E i \in 1..Len(calls[req]) : calls[req][i].op = "Get" /\ calls[req][i].err = "not found"

----------------------------------------------------------------------------
(* Claims *)

\* C1: a pass that follows a successful pass, with the RouteSource, its
\* endpoints and a never-failing replace-by-key store unchanged in between,
\* issues no Create call.
C1_Idempotence ==
    \A req \in Sources : streak[req] >= 2 => CreateCalls(req) = <<>>

NumAddresses(key) ==
    LET ep == GetEndpoints(endpoints, key[1], key[2])
    IN  IF ep = Nil THEN 0 ELSE Len(SubsetAddrs(ep.Subsets, 0))

\* the backends a pass resolves: the service of every path, or the target
\* service of the direct mode once for each of its ports
ResolvedBackends(ing) ==
    {key \in ObjectKeys :
        /\ Refers(ing, key)
        /\ IsDirect(ing) /\ GetService(services, key[1], key[2]) # Nil
              => Len(GetService(services, key[1], key[2]).Ports) > 0}

\* C3: no Create call carries an empty endpoint list and the store never holds
\* a rule without endpoints; a pass for a RouteSource one of whose backends
\* has no address ends with an error and issues no Create call.
C3_NoEmptyEndpoints ==
    /\ \A x \in store : Len(x.Endpoints) > 0
    /\ \A req \in Sources :
          /\ \A m \in Created(req) : Len(m.Endpoints) > 0
          /\ \A i \in 1..Len(models[req]) : Len(models[req][i].Endpoints) > 0
          /\ (/\ fresh[req]
              /\ ingress[req] # Nil
              /\ \E key \in ResolvedBackends(ingress[req]) : NumAddresses(key) = 0)
             => result[req].err # "" /\ CreateCalls(req) = <<>>

\* C3 witness: the first backend was resolved, the second has no address: the
\* pass failed with no Create although a model had been built
C3_Witness ==
    \E req \in Sources :
        /\ fresh[req]
        /\ ingress[req] # Nil
        /\ \E key \in ResolvedBackends(ingress[req]) : NumAddresses(key) = 0
        /\ buildErr[req] = "no endpoints"
        /\ Len(models[req]) > 0
        /\ result[req].err = "no endpoints"
        /\ CreateCalls(req) = <<>>

\* C4: every model a pass of a path-routed RouteSource passes to Create is
\* named {ns}_{name}_https with port 443 and security set when its host is
\* listed in a TLS binding, and {ns}_{name} with port 80 and security unset
\* when it is not.
C4_PlainAndHTTPSKeysOnly ==
    \A req \in Sources :
        fresh[req] /\ ingress[req] # Nil /\ ~IsDirect(ingress[req]) =>
            \A m \in Created(req) :
                IF checkTLSHost(m.Service.Host, ingress[req].TLS)
                THEN /\ m.Service.Name = RuleNameHTTPS(req)
                     /\ m.Service.Port = 443
                     /\ m.Service.Security = 1
                ELSE /\ m.Service.Name = RuleName(req)
                     /\ m.Service.Port = 80
                     /\ m.Service.Security = 0

\* C4 witness: one pass of a RouteSource with a TLS binding created a rule for
\* a TLS host and rules for other hosts
C4_Witness ==
    \E req \in Sources :
        /\ fresh[req] /\ ingress[req] # Nil /\ ~IsDirect(ingress[req])
        /\ ingress[req].TLS # <<>>
        /\ \E m \in Created(req) : m.Service.Name = RuleNameHTTPS(req) /\ m.Service.Port = 443
        /\ \E m \in Created(req) : m.Service.Name = RuleName(req) /\ m.Service.Port = 80

\* C5: after a successful pass for a RouteSource with one rule whose host is
\* listed in a TLS binding, run while the plain rule was installed, the store
\* holds the TLS rule (port 443, security set) and no longer the plain rule.
C5_TLSSwitchDeletesPlain ==
    \A req \in Sources :
        (/\ streak[req] >= 1
         /\ ~IsDirect(ingress[req])
         /\ Len(ingress[req].Rules) = 1
         /\ checkTLSHost(ingress[req].Rules[1].Host, ingress[req].TLS)
         /\ RuleName(req) \in SnapshotNames(req))
        => /\ \E x \in store : /\ x.Service.Name = RuleNameHTTPS(req)
                               /\ x.Service.Port = 443
                               /\ x.Service.Security = 1
           /\ RuleName(req) \notin StoreNames

\* the (IP, target port) pairs of an endpoint list, with their multiplicities
PairCount(eps, ip, port) ==
    Cardinality({i \in 1..Len(eps) : eps[i].EndpointIP = ip /\ eps[i].TargetPort = port})

IsPermutation(e1, e2) ==
    /\ Len(e1) = Len(e2)
    /\ \A i \in 1..Len(e1) :
          PairCount(e1, e1[i].EndpointIP, e1[i].TargetPort)
              = PairCount(e2, e1[i].EndpointIP, e1[i].TargetPort)

Diffed(req) == ~queued[req]

\* C6: a desired model is left out of the create set when the snapshot holds
\* a rule of the same name whose endpoint list is a permutation of its own
\* (same (IP, target port) pairs in any order, weights ignored).
C6_PermutationIsEqual ==
    \A req \in Sources :
        Diffed(req) =>
            \A i \in 1..Len(models[req]) :
                (\E lbItem \in snapshot[req] :
                     /\ lbItem.Service.Name = models[req][i].Service.Name
                     /\ IsPermutation(models[req][i].Endpoints, lbItem.Endpoints))
                => models[req][i] \notin Range(applyModels[req])

\* C6 witness: the snapshot rule lists the two endpoints of the desired model
\* in the other order and with another weight, and nothing is to be created
C6_Witness ==
    \E req \in Sources :
        /\ Diffed(req)
        /\ \E lbItem \in snapshot[req] :
              /\ lbItem.Service.Name = models[req][1].Service.Name
              /\ Len(lbItem.Endpoints) = 2
              /\ lbItem.Endpoints[1].EndpointIP # lbItem.Endpoints[2].EndpointIP
              /\ lbItem.Endpoints[1].Weight # models[req][1].Endpoints[1].Weight
              /\ models[req][1].Endpoints[1].EndpointIP = lbItem.Endpoints[2].EndpointIP
              /\ IsPermutation(models[req][1].Endpoints, lbItem.Endpoints)
        /\ applyModels[req] = <<>>

\* C7: every model built for a RouteSource with the direct-service annotation
\* whose target lives in another namespace is named {ns}_{name} after the
\* RouteSource, has external IP 0.0.0.0 and the port of a service port.
C7_DirectKeyIsOwn ==
    \A req \in Sources :
        (/\ fresh[req] /\ ingress[req] # Nil /\ IsDirect(ingress[req])
         /\ "loxilb.io/direct-loadbalance-namespace" \in DOMAIN ingress[req].Annotations
         /\ ingress[req].Annotations["loxilb.io/direct-loadbalance-namespace"] # req.Namespace)
        => \A i \in 1..Len(models[req]) :
              /\ models[req][i].Service.Name = RuleName(req)
              /\ models[req][i].Service.ExternalIP = "0.0.0.0"

\* C8: once the pass that finds the RouteSource gone has returned success, the
\* store holds no rule that a pass of this RouteSource created.
C8_NoOrphans ==
    \A req \in Sources :
        LastPassNotFound(req) /\ result[req].err = "" => StoreNames \cap owned[req] = {}

\* C9: the builder's list holds at most one model of each name.
C9_OneModelPerKey ==
    \A req \in Sources :
        \A i, j \in 1..Len(models[req]) :
            models[req][i].Service.Name = models[req][j].Service.Name => i = j

\* C10 (as amended): a pass ends with an error, or with success and the
\* 30-second re-poll; the one exception is the pass that finds the
\* RouteSource gone, which ends with success and no re-poll.
C10_ErrorOrRepoll ==
    \A req \in Sources :
        fresh[req] =>
            IF LastPassNotFound(req)
            THEN result[req] = [err |-> "", RequeueAfter |-> 0]
            ELSE \/ result[req].err # "" /\ result[req].RequeueAfter = 0
                 \/ result[req].err = "" /\ result[req].RequeueAfter = 30

\* C10 witness: a pass created rules and returned success with the re-poll
C10_Witness ==
    \E req \in Sources :
        /\ fresh[req]
        /\ ~LastPassNotFound(req)
        /\ CreateCalls(req) # <<>>
        /\ result[req] = [err |-> "", RequeueAfter |-> 30]

\* C10 (as stated): every pass ends with an error or with success and the
\* 30-second re-poll.
C10_AlwaysErrorOrRepoll ==
    \A req \in Sources :
        fresh[req] => result[req].err # "" \/ result[req].RequeueAfter = 30

\* the (IP, target port) pairs of an endpoint list, as a set
PairsOf(eps) == {<<eps[i].EndpointIP, eps[i].TargetPort>> : i \in 1..Len(eps)}

\* equality of a desired model and a listed rule in both directions
StructurallyEqual(model, lbItem) ==
    /\ lbItem.Service.Name = model.Service.Name
    /\ Len(lbItem.Endpoints) = Len(model.Endpoints)
    /\ PairsOf(model.Endpoints) = PairsOf(lbItem.Endpoints)

\* C11: the differ leaves a desired model out only if the snapshot holds a rule
\* of the same name, with as many endpoints, every pair of the model among the
\* rule's pairs and every pair of the rule among the model's.
C11_SkipsOnlyEqualSets ==
    \A req \in Sources :
        Diffed(req) =>
            \A i \in 1..Len(models[req]) :
                models[req][i] \notin Range(applyModels[req])
                => \E lbItem \in snapshot[req] : StructurallyEqual(models[req][i], lbItem)

\* C12: the create set is the builder's list, in its order, without the models
\* for which the snapshot holds a rule of the same name and an equal endpoint
\* set; a model that differs from the rule of its name in count or in any pair
\* is included.
C12_CreateSetIsTheUnequal ==
    \A req \in Sources :
        Diffed(req) =>
            applyModels[req]
                = SelectSeq(models[req],
                            LAMBDA model :
                                ~ \E lbItem \in snapshot[req] : StructurallyEqual(model, lbItem))

\* C13 (as amended): a pass whose build fails issues no Create call, issues
\* DeleteByName for exactly those of its two keys that the snapshot lists,
\* ignores a failing delete (the rule then stays) and returns the build error.
C13_RollbackDeletesWhatSnapshotLists ==
    \A req \in Sources :
        buildErr[req] # "" =>
            /\ CreateCalls(req) = <<>>
            /\ DeletedNames(req) = OwnKeys(req) \cap SnapshotNames(req)
            /\ \A i \in 1..Len(DeleteCalls(req)) :
                  DeleteCalls(req)[i].name \in StoreNames <=> DeleteCalls(req)[i].err # ""
            /\ result[req] = ReturnError(buildErr[req])

\* C13 witness: the second backend has no address, a model had been built for
\* the first; both rules were listed, one delete failed and was ignored
C13_Witness ==
    \E req \in Sources :
        /\ buildErr[req] = "no endpoints"
        /\ Len(models[req]) > 0
        /\ OwnKeys(req) \subseteq SnapshotNames(req)
        /\ DeletedNames(req) = OwnKeys(req)
        /\ \E i \in 1..Len(DeleteCalls(req)) : DeleteCalls(req)[i].err # ""
        /\ \E i \in 1..Len(DeleteCalls(req)) : DeleteCalls(req)[i].err = ""
        /\ CreateCalls(req) = <<>>
        /\ result[req].err = "no endpoints"

\* C13 (as stated): when the build fails and either key is in the snapshot,
\* DeleteByName is attempted for both keys.
C13_RollbackDeletesBoth ==
    \A req \in Sources :
        (buildErr[req] # "" /\ OwnKeys(req) \cap SnapshotNames(req) # {})
        => /\ CreateCalls(req) = <<>>
           /\ OwnKeys(req) \subseteq DeletedNames(req)
           /\ result[req] = ReturnError(buildErr[req])

\* C14: Create calls follow the create set in its order; after a Create that
\* answers "lbrule-exists error" the pass goes on as after a success; a Create
\* that fails otherwise is the last call of the pass, which returns that
\* error without touching the status; what was created stays in the store.
C14_CreateFailureEndsPass ==
    \A req \in Sources :
        LET cs == CreateCalls(req)
        IN  /\ Len(cs) <= Len(applyModels[req])
            /\ \A i \in 1..Len(cs) :
                  /\ cs[i].model = applyModels[req][i]
                  /\ IF HardFailure(cs[i])
                     THEN /\ i = Len(cs)
                          /\ calls[req][Len(calls[req])] = cs[i]
                          /\ result[req] = ReturnError(cs[i].err)
                          /\ StatusCalls(req) = <<>>
                     ELSE /\ i < Len(applyModels[req]) => Len(cs) > i
                          /\ i = Len(applyModels[req]) => result[req] = ReturnRequeue
                  /\ (/\ cs[i].err = ""
                      /\ \A j \in (i + 1)..Len(cs) :
                            cs[j].err = ""
                            => cs[j].model.Service.Name # cs[i].model.Service.Name)
                     => cs[i].model \in store

\* C14 witness: the second Create of a pass failed; the first rule is installed
\* and the status, which names a status source, was not touched
C14_Witness ==
    \E req \in Sources :
        /\ Len(applyModels[req]) = 2
        /\ Len(CreateCalls(req)) = 2
        /\ CreateCalls(req)[1].err = ""
        /\ CreateCalls(req)[2].err = "create failed"
        /\ CreateCalls(req)[1].model \in store
        /\ result[req] = ReturnError("create failed")
        /\ ingress[req] # Nil /\ lbSvcKey(ingress[req]).look
        /\ StatusCalls(req) = <<>>

\* the last pass read the Ingress, built its models and found nothing to create
PassedNoOp(req) ==
    /\ ingress[req] # Nil
    /\ Len(calls[req]) >= 2
    /\ calls[req][2] = GetCall("")
    /\ buildErr[req] = ""
    /\ applyModels[req] = <<>>

\* C15: a pass that finds nothing to create issues no call beyond the list and
\* the read of the Ingress, leaves the remote store and the status as they
\* were, and returns success with the 30-second re-poll.
C15_NoOpPassChangesNothing ==
    [][\A req \in Sources :
          (fresh'[req] /\ PassedNoOp(req)')
          => /\ store' = store
             /\ status' = status
             /\ calls'[req] = <<ListCall(""), GetCall("")>>
             /\ result'[req] = [err |-> "", RequeueAfter |-> 30]]_vars

\* C15 witness: a no-op pass with rules installed and a status already written
C15_Witness ==
    \E req \in Sources :
        /\ fresh[req]
        /\ PassedNoOp(req)
        /\ store # {}
        /\ lbSvcKey(ingress[req]).look
        /\ status[req] # <<>>
        /\ result[req] = ReturnRequeue

\* C16: every pass begins with the remote list; when the list fails it is the
\* only call of the pass, which returns the list error and leaves the remote
\* store and the status as they were, also when the Ingress is gone.
C16_ListFailureEndsPass ==
    [][\A req \in Sources :
          fresh'[req]
          => /\ calls'[req] # <<>>
             /\ calls'[req][1].op = "List"
             /\ calls'[req][1].err # ""
                => /\ calls'[req] = <<calls'[req][1]>>
                   /\ result'[req] = ReturnError(calls'[req][1].err)
                   /\ store' = store
                   /\ status' = status]_vars

\* C16 witness: the Ingress is gone, its rule is installed, and the pass ended
\* at the failed list: the rule is still there
C16_Witness ==
    \E req \in Sources :
        /\ fresh[req]
        /\ ingress[req] = Nil
        /\ calls[req] = <<ListCall("list failed")>>
        /\ result[req] = ReturnError("list failed")
        /\ StoreNames \cap OwnKeys(req) # {}

\* the entries a status write added to the list the Ingress was read with
Appended(c) == SubSeq(c.status, Len(c.from) + 1, Len(c.status))

\* C17 (as amended): no two entries of the status share a non-empty IP or a
\* non-empty hostname, and a status update of a status that was written
\* before adds nothing but the entries of the status source that have neither
\* an IP nor a hostname.
C17_AddressedEntriesOnce ==
    \A req \in Sources :
        /\ \A i, j \in 1..Len(status[req]) :
              i < j =>
                  /\ ~ (status[req][i].IP # "" /\ status[req][i].IP = status[req][j].IP)
                  /\ ~ (/\ status[req][i].Hostname # ""
                        /\ status[req][i].Hostname = status[req][j].Hostname)
        /\ \A k \in 1..Len(StatusWrites(req)) :
              LET c == StatusWrites(req)[k]
              IN  /\ SubSeq(c.status, 1, Len(c.from)) = c.from
                  /\ c.from # <<>>
                     => \A n \in 1..Len(Appended(c)) :
                           Appended(c)[n].IP = "" /\ Appended(c)[n].Hostname = ""

\* C17 witness: the status source lists a hostname and then another IP under
\* that hostname; the status, written before, was written again and holds the
\* hostname once
C17_Witness ==
    \E req \in Sources :
        /\ fresh[req]
        /\ StatusWrites(req) # <<>>
        /\ StatusWrites(req)[1].from = <<ByHostname>>
        /\ StatusWrites(req)[1].err = ""
        /\ status[req] = <<ByHostname>>
        /\ GetService(services, lbSvcKey(ingress[req]).Namespace,
                      lbSvcKey(ingress[req]).Name).Status = <<ByHostname, ByBoth>>

\* C17 (as stated): a status update of a status that was written before adds
\* nothing.
C17_RepeatAddsNothing ==
    \A req \in Sources :
        \A k \in 1..Len(StatusWrites(req)) :
            StatusWrites(req)[k].from # <<>>
            => StatusWrites(req)[k].status = StatusWrites(req)[k].from

\* C18: a status write is issued only when the pass appended an entry, and a
\* failing lookup of the status source or a failing status write leaves the
\* pass successful with the 30-second re-poll and the created rules in place.
C18_WritesOnlyWhenAppended ==
    \A req \in Sources :
        /\ \A k \in 1..Len(StatusWrites(req)) : Appended(StatusWrites(req)[k]) # <<>>
        /\ StatusCalls(req) # <<>>
           => /\ result[req] = ReturnRequeue
              /\ \A m \in Created(req) : m.Service.Name \in StoreNames

Built(req) == ~queued[req]

\* the port numbers in the port records of the subsets of an Endpoints object
ListedPorts(ep) ==
    IF ep = Nil THEN {}
    ELSE UNION {{ep.Subsets[i].Ports[j] : j \in 1..Len(ep.Subsets[i].Ports)} :
                   i \in 1..Len(ep.Subsets)}

\* the port numbers the paths of the rules declare for backend ns/name
DeclaredFor(ing, ns, name) ==
    UNION {{ing.Rules[i].HTTP.Paths[j].Service.Port :
               j \in {k \in 1..Len(ing.Rules[i].HTTP.Paths) :
                         /\ ing.Rules[i].HTTP.Paths[k].Service.Name = name
                         /\ getBackendServiceNamespace(ing, name) = ns}} :
           i \in 1..Len(ing.Rules)}

\* C19: a path-routed build fails, with no model for the path, when the port a
\* path declares is not in a port record of the backend's endpoint subsets;
\* no model is built with a target port those subsets do not list.
C19_TargetPortIsListed ==
    \A req \in Sources :
        Built(req) =>
            LET listed == ListedPorts(GetEndpoints(endpoints, "ns", "svc"))
            IN  /\ \A i \in 1..Len(models[req]) :
                      \A n \in 1..Len(models[req][i].Endpoints) :
                          models[req][i].Endpoints[n].TargetPort \in listed
                /\ ~ (DeclaredFor(ingress[req], "ns", "svc") \subseteq listed)
                   => buildErr[req] # ""

----------------------------------------------------------------------------
(* C20: heartbeat convergence *)

\* the ready addresses of an Endpoints object at the declared port
ReadyPairs(ep, port) ==
    UNION {{<<ep.Subsets[i].Addresses[j], port>> : j \in 1..Len(ep.Subsets[i].Addresses)} :
              i \in 1..Len(ep.Subsets)}

\* the remote rule of the RouteSource holds exactly the ready addresses of its backend
Converged(req) ==
    LET built == BuildModels(ingress[req], endpoints, services, pods)
    IN  \E lbItem \in store :
           /\ lbItem.Service.Name = built.models[1].Service.Name
           /\ PairsOf(lbItem.Endpoints) = ReadyPairs(endpoints[<<"ns", "svc">>], 8080)

\* every pass that returned success for an existing RouteSource asked for the
\* 30-second re-poll and left the request queued
RePolls(req) ==
    (fresh[req] /\ ingress[req] # Nil /\ result[req].err = "")
    => (result[req].RequeueAfter = 30 /\ queued[req])

\* C20: with a reliable store that replaces by name and no event after the
\* create event, once the ready addresses of the backend have changed and stay
\* fixed, the re-polled passes bring the remote rule of the RouteSource to
\* exactly the new endpoint set and keep it there; every successful pass for an
\* existing RouteSource carries the 30-second re-poll.
C20_HeartbeatConverges ==
    /\ [](\A req \in Sources : RePolls(req))
    /\ <>[](\A req \in Sources : Converged(req))

----------------------------------------------------------------------------
(* C21: isolation between RouteSources *)

\* the identity keys the last pass of a RouteSource issued Create or DeleteByName for
TouchedKeys(req) ==
    {c.model.Service.Name : c \in Range(CreateCalls(req))} \cup DeletedNames(req)

\* C21: a pass for RouteSource (ns, name) issues Create and DeleteByName only
\* for the keys {ns}_{name} and {ns}_{name}_https, whatever its mode and
\* annotations; so every rule the store holds under a key of a RouteSource
\* was created by a pass of that RouteSource, in any order of the passes.
C21_PassesAreIsolated ==
    \A req \in BothSources :
        /\ TouchedKeys(req) \subseteq OwnKeys(req)
        /\ \A lbItem \in store :
              lbItem.Service.Name \in OwnKeys(req) => lbItem.Service.Name \in owned[req]

----------------------------------------------------------------------------
(* C22: what the differ reads of a model *)

\* the desired model with the attributes of another service of the same key
WithService(model, svc) == [model EXCEPT !.Service = svc]

\* C22: the differ decides on the identity key and the (IP, target port) pairs
\* of a desired model alone: the model with any other exposed port, virtual
\* host, security flag, protocol, external IP or selection policy gets the
\* decision the model got against the same snapshot, and a model whose key is
\* installed with the same pairs is not created, whatever attributes the
\* installed rule has.
C22_DecisionIgnoresAttributes ==
    \A req \in Sources :
        Diffed(req) =>
            /\ \A svc \in AttrServices :
                  (Differ(<<WithService(models[req][1], svc)>>, snapshot[req]) = <<>>)
                      <=> (applyModels[req] = <<>>)
            /\ (\E lbItem \in snapshot[req] :
                    /\ lbItem.Service.Name = models[req][1].Service.Name
                    /\ IsPermutation(models[req][1].Endpoints, lbItem.Endpoints))
               => applyModels[req] = <<>>

\* C22 witness: the installed rule has the endpoints of the desired model and
\* another exposed port, protocol and selection policy, and nothing is created
C22_Witness ==
    \E req \in Sources :
        /\ Diffed(req)
        /\ \E lbItem \in snapshot[req] :
              /\ lbItem.Service.Name = models[req][1].Service.Name
              /\ lbItem.Service.Port # models[req][1].Service.Port
              /\ lbItem.Service.Protocol # models[req][1].Service.Protocol
              /\ lbItem.Service.Sel # models[req][1].Service.Sel
              /\ lbItem.Endpoints = models[req][1].Endpoints
        /\ applyModels[req] = <<>>

====
